---- MODULE Spec2Model ----
(***************************************************************************)
(* Model of package auth0grant (src/grant.go): a Grant caches the access   *)
(* token of an OAuth2 client_credentials exchange and renews it lazily in  *)
(* GetAccessToken once needsRenew finds it absent or expired.              *)
(*                                                                         *)
(* Time.  time.Duration is an int64 count of nanoseconds and time.Second   *)
(* is 10^9 of them; TLC's integers are narrower than that word, so the     *)
(* model keeps the arithmetic of the type (two's complement wrap-around of *)
(* the product in line 101) on a word of DurationBits bits with Second     *)
(* ticks per second.  Clock readings (time.Time) are counted in the same   *)
(* ticks and are not wrapped: a time.Time spans far more than any          *)
(* Duration can be added to it.                                            *)
(***************************************************************************)
EXTENDS Integers, Sequences, FiniteSets, TLC

\* ---- bounds of the model ------------------------------------------------
DurationBits == 6      \* width of the Duration word (int64 in the program)
Second == 4            \* ticks per second (10^9 ns in the program)
MaxTime == 8          \* the clock stops advancing at this reading
MaxCalls == 3          \* GetAccessToken calls per caller
MaxConcCalls == 2      \* the same, for each of two concurrent callers
MaxConcTime == 2       \* where the clock stops under concurrent callers

\* ---- values -------------------------------------------------------------
CLIENT_CREDS_GRANT_TYPE == "client_credentials"

StatusOK == 200

NoGrant == [present |-> FALSE, AccessToken |-> "", Scope |-> "",
            ExpiresIn |-> 0, TokenType |-> ""]

\* The clientCredsGrant struct, behind the pointer g.grant (present = non-nil).
clientCredsGrant(tok, scope, exp, typ) ==
    [present |-> TRUE, AccessToken |-> tok, Scope |-> scope,
     ExpiresIn |-> exp, TokenType |-> typ]

CredentialsRequest(id, secret, aud, gt) ==
    [ClientID |-> id, ClientSecret |-> secret, Audience |-> aud, GrantType |-> gt]

\* ---- time.Duration arithmetic -------------------------------------------
DurationModulus == 2 ^ DurationBits
MaxDuration == (DurationModulus \div 2) - 1
MinDuration == 0 - (DurationModulus \div 2)

\* The value an int64 holds after an overflowing operation.
WrapDuration(x) ==
    LET r == x % DurationModulus
    IN  IF r > MaxDuration THEN r - DurationModulus ELSE r

\* d * time.Second on time.Duration operands (grant.ExpiresIn *= time.Second).
MulDuration(a, b) == WrapDuration(a * b)

\* Time.Add and Time.After on clock readings.
TimeAdd(t, d) == t + d
\* !t.Before(u) in the place of t.After(u)
TimeNotBefore(t, u) == t >= u
TimeAfter(t, u) == t > u

\* ---- encoding/json ------------------------------------------------------
\* Strings are modelled by name; a string containing bytes that are not
\* valid UTF-8 is one of the names below, and json.Marshal writes it with
\* each such byte replaced by U+FFFD.
MarshalString(s) ==
    CASE s = "id-\\xff" -> "id-\\ufffd"
      [] s = "type-\\xff" -> "type-\\ufffd"
      [] OTHER -> s

\* json.Marshal(g.credRequest): the object as the server decodes it.
MarshalCredRequest(cr) ==
    [client_id |-> MarshalString(cr.ClientID),
     client_secret |-> MarshalString(cr.ClientSecret),
     audience |-> MarshalString(cr.Audience),
     grant_type |-> MarshalString(cr.GrantType)]

\* JSON values of a response body.
JStr(s) == [t |-> "string", s |-> s, n |-> 0]
JNum(n) == [t |-> "number", s |-> "", n |-> n]
JReal == [t |-> "real", s |-> "", n |-> 0]       \* a number that is no integer

\* A response body: well-formed JSON object or not, and its members.
JObject(o) == [syntaxOK |-> TRUE, obj |-> o]
Garbage == [syntaxOK |-> FALSE, obj |-> [access_token |-> JStr("")]]

HasKey(body, k) == k \in DOMAIN body.obj

StringFieldOK(body, k) == HasKey(body, k) => body.obj[k].t = "string"
IntFieldOK(body, k) ==
    HasKey(body, k) => /\ body.obj[k].t = "number"
                       /\ body.obj[k].n >= MinDuration
                       /\ body.obj[k].n <= MaxDuration

StringField(body, k) == IF HasKey(body, k) THEN body.obj[k].s ELSE ""
IntField(body, k) == IF HasKey(body, k) THEN body.obj[k].n ELSE 0

\* json.NewDecoder(resp.Body).Decode(&grant): whether it returns nil ...
DecodeOK(body) ==
    /\ body.syntaxOK
    /\ StringFieldOK(body, "access_token")
    /\ StringFieldOK(body, "scope")
    /\ IntFieldOK(body, "expires_in")
    /\ StringFieldOK(body, "token_type")

\* ... and the struct it fills: a member the body lacks keeps the zero value
\* of the freshly declared local.
DecodeGrant(body) ==
    clientCredsGrant(StringField(body, "access_token"),
                     StringField(body, "scope"),
                     IntField(body, "expires_in"),
                     StringField(body, "token_type"))

\* ---- errors (github.com/pkg/errors) -------------------------------------
NoError == <<>>
WrapError(err, msg) == <<msg>> \o err

\* ---- the collaborators' inputs ------------------------------------------
TokenURLs == {"https://tenant.auth0.com/oauth/token"}

CredRequests ==
    {CredentialsRequest("joe-blow-id", "joe-blow-secret",
                        "https://api.blowcorp.co/", CLIENT_CREDS_GRANT_TYPE),
     CredentialsRequest("joe-blow-id", "joe-blow-secret",
                        "https://api.blowcorp.co/", ""),
     CredentialsRequest("id-\\xff", "joe-blow-secret",
                        "https://api.blowcorp.co/", "type-\\xff")}

Tokens == {"open-sesame", "abracadabra"}

\* The least count of seconds whose product with Second leaves the word
\* (9223372037 for int64 nanoseconds).
OverflowSeconds == (MaxDuration \div Second) + 1

ExpiresInValues == {0 - 1, 0, 1, 2, OverflowSeconds}

FullBody(tok, n) ==
    JObject([access_token |-> JStr(tok), scope |-> JStr("u-cant-touch-dis"),
             expires_in |-> JNum(n), token_type |-> JStr("Bearer")])

Bodies ==
    {FullBody(tok, n) : tok \in Tokens, n \in ExpiresInValues}
    \cup {Garbage,
          JObject([access_token |-> JStr("abracadabra")]),
          JObject([access_token |-> JStr("open-sesame"), expires_in |-> JReal]),
          JObject([access_token |-> JStr("open-sesame"),
                   expires_in |-> JNum(MaxDuration + 1)])}

TransportFailure == [transportErr |-> TRUE, StatusCode |-> 0, Body |-> Garbage]
HTTPResponse(status, body) ==
    [transportErr |-> FALSE, StatusCode |-> status, Body |-> body]

Responses ==
    {TransportFailure}
    \cup {HTTPResponse(s, b) : s \in {StatusOK, 500}, b \in Bodies}

\* ---- state --------------------------------------------------------------
VARIABLES
    built,        \* NewGrant has returned the *Grant
    grant,        \* g.grant (NoGrant = nil)
    issuedAt,     \* g.issuedAt
    tokenURL,     \* g.tokenURL
    credRequest,  \* g.credRequest
    now,          \* what g.nowFn() returns
    pc,           \* each caller's position in GetAccessToken
    stale,        \* each caller's result of needsRenew
    resp,         \* each caller's resp in renewGrant
    newGrant,     \* each caller's local grant in renewGrant
    ret,          \* each caller's return values (token, err)
    posts,        \* history: the requests handed to http.Post
    call,         \* history: per caller, the call in progress or just returned
    lastDecoded,  \* history: access_token of the latest decoded 200 response
    given,        \* history: the arguments NewGrant was called with
    nowFn,        \* g.nowFn, the time source the Grant holds
    origin        \* history: whose renewal wrote g.issuedAt, whose g.grant

vars == <<built, grant, issuedAt, tokenURL, credRequest, now, pc, stale, resp,
          newGrant, ret, posts, call, lastDecoded, given, nowFn, origin>>

gvars == <<grant, issuedAt, tokenURL, credRequest>>

ZeroTime == 0
NoReturn == [returned |-> FALSE, token |-> "", err |-> NoError]
Return(tok, err) == [returned |-> TRUE, token |-> tok, err |-> err]
\* No clock reading.
NoTime == 0 - 1
NoCall == [n |-> 0, preGrant |-> NoGrant, preIssuedAt |-> ZeroTime,
           checkNow |-> ZeroTime, storeNow |-> ZeroTime, nposts |-> 0,
           prevFailed |-> FALSE, prevAt |-> NoTime, prevToken |-> ""]
NoOrigin == [issuedAtBy |-> <<0, 0>>, grantBy |-> <<0, 0>>, grantAt |-> ZeroTime]

Callers == DOMAIN pc

InitFor(cs) ==
    /\ built = FALSE
    /\ grant = NoGrant
    /\ issuedAt = ZeroTime
    /\ tokenURL = ""
    /\ credRequest = CredentialsRequest("", "", "", "")
    /\ now = 1
    /\ pc = [c \in cs |-> "idle"]
    /\ stale = [c \in cs |-> FALSE]
    /\ resp = [c \in cs |-> TransportFailure]
    /\ newGrant = [c \in cs |-> NoGrant]
    /\ ret = [c \in cs |-> NoReturn]
    /\ posts = <<>>
    /\ call = [c \in cs |-> NoCall]
    /\ lastDecoded = ""
    /\ given = [tokenURL |-> "", credRequest |-> CredentialsRequest("", "", "", "")]
    /\ nowFn = "nil"
    /\ origin = NoOrigin

Init == InitFor({1})

\* ---- pure parts of the methods ------------------------------------------
\* needsRenew with the expiry instant itself counted as expired.
needsRenewAtExpiry(gr, iss, t) ==
    IF ~gr.present
    THEN TRUE
    ELSE LET expires == TimeAdd(iss, gr.ExpiresIn)
         IN  ~TimeAfter(expires, t)

\* needsRenew with the nil test inverted.
needsRenewNilIsFresh(gr, iss, t) ==
    IF ~gr.present
    THEN FALSE
    ELSE LET expires == TimeAdd(iss, gr.ExpiresIn)
         IN  TimeAfter(t, expires)

\* func (g *Grant) needsRenew() bool, on the fields it reads and the reading
\* of g.nowFn() it takes.
needsRenew(gr, iss, t) ==
    IF ~gr.present
    THEN TRUE
    ELSE LET expires == TimeAdd(iss, gr.ExpiresIn)
         IN  TimeAfter(t, expires)

\* grant.ExpiresIn *= time.Second
ScaleExpiresIn(gr) == [gr EXCEPT !.ExpiresIn = MulDuration(@, Second)]

\* The request sent as a form post instead of JSON.
PostRequestAsForm(url, cr) ==
    [url |-> url, contentType |-> "application/x-www-form-urlencoded",
     body |-> MarshalCredRequest(cr)]

\* The request http.Post sends for g.
PostRequest(url, cr) ==
    [url |-> url, contentType |-> "application/json",
     body |-> MarshalCredRequest(cr)]

\* return "", errors.Wrap(err, "renew grant") with the token a slip would
\* hand back: the cached one.
RenewFailedKeepsToken(err) == Return(grant.AccessToken, WrapError(err, "renew grant"))

\* GetAccessToken when renewGrant returned err: return "", errors.Wrap(...)
RenewFailed(err) == Return("", WrapError(err, "renew grant"))

\* ---- actions ------------------------------------------------------------
\* NewGrant fetching the first token itself.
NewGrantEager(url, cr) ==
    /\ ~built
    /\ built' = TRUE
    /\ tokenURL' = url
    /\ credRequest' = cr
    /\ given' = [tokenURL |-> url, credRequest |-> cr]
    /\ nowFn' = "time.Now"
    /\ UNCHANGED origin
    /\ posts' = Append(posts, [url |-> url, contentType |-> "application/json",
                               body |-> MarshalCredRequest(cr)])
    /\ UNCHANGED <<grant, issuedAt, now, pc, stale, resp, newGrant, ret, call,
                   lastDecoded>>

\* NewGrant(tokenURL, credRequest)
NewGrant(url, cr) ==
    /\ ~built
    /\ built' = TRUE
    /\ tokenURL' = url
    /\ credRequest' = cr
    /\ given' = [tokenURL |-> url, credRequest |-> cr]
    /\ nowFn' = "time.Now"
    /\ UNCHANGED <<grant, issuedAt, now, pc, stale, resp, newGrant, ret, posts,
                   call, lastDecoded, origin>>

\* The clock moves on between any two steps.
Tick ==
    /\ now < MaxTime
    /\ now' = now + 1
    /\ UNCHANGED <<built, gvars, pc, stale, resp, newGrant, ret, posts, call,
                   lastDecoded>>
    /\ UNCHANGED <<given, nowFn, origin>>

\* History of the call a caller has just returned from: whether it failed,
\* and, when it succeeded with every clock reading it took being the same
\* one, that reading.
PrevFailed(c) == ret[c].returned /\ ret[c].err # NoError
PrevAt(c) ==
    IF /\ ret[c].returned /\ ret[c].err = NoError
       /\ stale[c] => call[c].storeNow = call[c].checkNow
    THEN call[c].checkNow
    ELSE NoTime

\* A caller enters GetAccessToken, for its k-th call.
Enter(c, k) ==
    /\ built
    /\ pc[c] \in {"idle", "done"}
    /\ pc' = [pc EXCEPT ![c] = "needsRenew"]
    /\ call' = [call EXCEPT ![c] = [n |-> k, preGrant |-> grant,
                                    preIssuedAt |-> issuedAt,
                                    checkNow |-> ZeroTime,
                                    storeNow |-> ZeroTime, nposts |-> 0,
                                    prevFailed |-> PrevFailed(c),
                                    prevAt |-> PrevAt(c),
                                    prevToken |-> IF PrevAt(c) = NoTime
                                                  THEN "" ELSE ret[c].token]]
    /\ stale' = [stale EXCEPT ![c] = FALSE]
    /\ resp' = [resp EXCEPT ![c] = TransportFailure]
    /\ newGrant' = [newGrant EXCEPT ![c] = NoGrant]
    /\ ret' = [ret EXCEPT ![c] = NoReturn]
    /\ UNCHANGED <<built, gvars, now, posts, lastDecoded>>
    /\ UNCHANGED <<given, nowFn, origin>>

\* func (g *Grant) GetAccessToken() (string, error), entered
GetAccessToken(c) ==
    /\ call[c].n < MaxCalls
    /\ Enter(c, call[c].n + 1)

\* The staleness check skipped after a failed call (back-off).
CheckNeedsRenewBackOff(c) ==
    /\ pc[c] = "needsRenew"
    /\ LET r == needsRenew(grant, issuedAt, now) /\ ~call[c].prevFailed
       IN  /\ stale' = [stale EXCEPT ![c] = r]
           /\ pc' = [pc EXCEPT ![c] = IF r THEN "post" ELSE "read"]
    /\ call' = [call EXCEPT ![c].checkNow = now]
    /\ UNCHANGED <<built, gvars, now, resp, newGrant, ret, posts, lastDecoded>>
    /\ UNCHANGED <<given, nowFn, origin>>

\* The staleness check deferring to a renewal another caller has under way
\* (single flight).
CheckNeedsRenewSingleFlight(c) ==
    /\ pc[c] = "needsRenew"
    /\ LET renewing == \E d \in Callers \ {c} :
                           pc[d] \in {"post", "decode", "storeIssuedAt", "storeGrant"}
           r == needsRenew(grant, issuedAt, now) /\ ~renewing
       IN  /\ stale' = [stale EXCEPT ![c] = r]
           /\ pc' = [pc EXCEPT ![c] = IF r THEN "post" ELSE "read"]
    /\ call' = [call EXCEPT ![c].checkNow = now]
    /\ UNCHANGED <<built, gvars, now, resp, newGrant, ret, posts, lastDecoded>>
    /\ UNCHANGED <<given, nowFn, origin>>

\* if g.needsRenew() { ... }
CheckNeedsRenew(c) ==
    /\ pc[c] = "needsRenew"
    /\ LET r == needsRenew(grant, issuedAt, now)
       IN  /\ stale' = [stale EXCEPT ![c] = r]
           /\ pc' = [pc EXCEPT ![c] = IF r THEN "post" ELSE "read"]
    /\ call' = [call EXCEPT ![c].checkNow = now]
    /\ UNCHANGED <<built, gvars, now, resp, newGrant, ret, posts, lastDecoded>>
    /\ UNCHANGED <<given, nowFn, origin>>

\* The history of requests keeps the first PostsKept of them; only a caller
\* whose calls are not counted gets that far.
PostsKept == 2 * MaxCalls
Record(h, req) == IF Len(h) < PostsKept THEN Append(h, req) ELSE h

\* renewGrant dropping the cached grant before it asks for a new one.
PostInvalidates(c) ==
    /\ pc[c] = "post"
    /\ grant' = NoGrant
    /\ posts' = Record(posts, PostRequest(tokenURL, credRequest))
    /\ call' = [call EXCEPT ![c].nposts = @ + 1]
    /\ \E r \in Responses :
         IF r.transportErr
         THEN /\ ret' = [ret EXCEPT ![c] =
                    RenewFailed(WrapError(<<"transport">>, "cred http request"))]
              /\ pc' = [pc EXCEPT ![c] = "done"]
              /\ UNCHANGED resp
         ELSE /\ resp' = [resp EXCEPT ![c] = r]
              /\ pc' = [pc EXCEPT ![c] = "decode"]
              /\ UNCHANGED ret
    /\ UNCHANGED <<built, issuedAt, tokenURL, credRequest, now, stale, newGrant,
                   lastDecoded>>
    /\ UNCHANGED <<given, nowFn, origin>>

\* renewGrant, lines 80-88: marshal the request and post it; a transport
\* error returns through GetAccessToken's errors.Wrap.
Post(c) ==
    /\ pc[c] = "post"
    /\ posts' = Record(posts, PostRequest(tokenURL, credRequest))
    /\ call' = [call EXCEPT ![c].nposts = @ + 1]
    /\ \E r \in Responses :
         IF r.transportErr
         THEN /\ ret' = [ret EXCEPT ![c] =
                    RenewFailed(WrapError(<<"transport">>, "cred http request"))]
              /\ pc' = [pc EXCEPT ![c] = "done"]
              /\ UNCHANGED resp
         ELSE /\ resp' = [resp EXCEPT ![c] = r]
              /\ pc' = [pc EXCEPT ![c] = "decode"]
              /\ UNCHANGED ret
    /\ UNCHANGED <<built, gvars, now, stale, newGrant, lastDecoded>>
    /\ UNCHANGED <<given, nowFn, origin>>

\* renewGrant dropping the cached grant when the exchange fails.
DecodeDropsGrant(c) ==
    /\ pc[c] = "decode"
    /\ IF resp[c].StatusCode # StatusOK
       THEN /\ ret' = [ret EXCEPT ![c] = RenewFailed(<<"response status">>)]
            /\ pc' = [pc EXCEPT ![c] = "done"]
            /\ grant' = NoGrant
            /\ UNCHANGED <<newGrant, lastDecoded>>
       ELSE IF ~DecodeOK(resp[c].Body)
       THEN /\ ret' = [ret EXCEPT ![c] =
                  RenewFailed(WrapError(<<"json">>, "decode grant from response"))]
            /\ pc' = [pc EXCEPT ![c] = "done"]
            /\ grant' = NoGrant
            /\ UNCHANGED <<newGrant, lastDecoded>>
       ELSE /\ newGrant' = [newGrant EXCEPT ![c] =
                                ScaleExpiresIn(DecodeGrant(resp[c].Body))]
            /\ lastDecoded' = StringField(resp[c].Body, "access_token")
            /\ pc' = [pc EXCEPT ![c] = "storeIssuedAt"]
            /\ UNCHANGED <<ret, grant>>
    /\ UNCHANGED <<built, issuedAt, tokenURL, credRequest, now, stale, resp,
                   posts, call, given, nowFn, origin>>

\* renewGrant decoding the body first and looking at the status afterwards.
DecodeBeforeStatus(c) ==
    /\ pc[c] = "decode"
    /\ IF ~DecodeOK(resp[c].Body)
       THEN /\ ret' = [ret EXCEPT ![c] =
                  RenewFailed(WrapError(<<"json">>, "decode grant from response"))]
            /\ pc' = [pc EXCEPT ![c] = "done"]
            /\ UNCHANGED <<newGrant, lastDecoded>>
       ELSE IF resp[c].StatusCode # StatusOK
       THEN /\ ret' = [ret EXCEPT ![c] = RenewFailed(<<"response status">>)]
            /\ pc' = [pc EXCEPT ![c] = "done"]
            /\ newGrant' = [newGrant EXCEPT ![c] =
                                ScaleExpiresIn(DecodeGrant(resp[c].Body))]
            /\ UNCHANGED lastDecoded
       ELSE /\ newGrant' = [newGrant EXCEPT ![c] =
                                ScaleExpiresIn(DecodeGrant(resp[c].Body))]
            /\ lastDecoded' = StringField(resp[c].Body, "access_token")
            /\ pc' = [pc EXCEPT ![c] = "storeIssuedAt"]
            /\ UNCHANGED ret
    /\ UNCHANGED <<built, gvars, now, stale, resp, posts, call, given, nowFn, origin>>

\* renewGrant decoding into the stored struct: a member the body lacks
\* keeps what the previous Grant had.
DecodeIntoStored(c) ==
    /\ pc[c] = "decode"
    /\ IF resp[c].StatusCode # StatusOK
       THEN /\ ret' = [ret EXCEPT ![c] = RenewFailed(<<"response status">>)]
            /\ pc' = [pc EXCEPT ![c] = "done"]
            /\ UNCHANGED <<newGrant, lastDecoded>>
       ELSE IF ~DecodeOK(resp[c].Body)
       THEN /\ ret' = [ret EXCEPT ![c] =
                  RenewFailed(WrapError(<<"json">>, "decode grant from response"))]
            /\ pc' = [pc EXCEPT ![c] = "done"]
            /\ UNCHANGED <<newGrant, lastDecoded>>
       ELSE /\ LET b == resp[c].Body
                   d == DecodeGrant(b)
                   merged ==
                     clientCredsGrant(
                       IF HasKey(b, "access_token") THEN d.AccessToken
                                                    ELSE grant.AccessToken,
                       IF HasKey(b, "scope") THEN d.Scope ELSE grant.Scope,
                       IF HasKey(b, "expires_in") THEN d.ExpiresIn
                                                  ELSE grant.ExpiresIn,
                       IF HasKey(b, "token_type") THEN d.TokenType
                                                  ELSE grant.TokenType)
               IN  newGrant' = [newGrant EXCEPT ![c] = ScaleExpiresIn(merged)]
            /\ lastDecoded' = StringField(resp[c].Body, "access_token")
            /\ pc' = [pc EXCEPT ![c] = "storeIssuedAt"]
            /\ UNCHANGED ret
    /\ UNCHANGED <<built, gvars, now, stale, resp, posts, call, given, nowFn, origin>>

\* renewGrant, lines 91-101: status check, decode, seconds to Duration.
Decode(c) ==
    /\ pc[c] = "decode"
    /\ IF resp[c].StatusCode # StatusOK
       THEN /\ ret' = [ret EXCEPT ![c] =
                  RenewFailed(<<"response status">>)]
            /\ pc' = [pc EXCEPT ![c] = "done"]
            /\ UNCHANGED <<newGrant, lastDecoded>>
       ELSE IF ~DecodeOK(resp[c].Body)
       THEN /\ ret' = [ret EXCEPT ![c] =
                  RenewFailed(WrapError(<<"json">>, "decode grant from response"))]
            /\ pc' = [pc EXCEPT ![c] = "done"]
            /\ UNCHANGED <<newGrant, lastDecoded>>
       ELSE /\ newGrant' = [newGrant EXCEPT ![c] =
                                ScaleExpiresIn(DecodeGrant(resp[c].Body))]
            /\ lastDecoded' = StringField(resp[c].Body, "access_token")
            /\ pc' = [pc EXCEPT ![c] = "storeIssuedAt"]
            /\ UNCHANGED ret
    /\ UNCHANGED <<built, gvars, now, stale, resp, posts, call, given, nowFn, origin>>

\* renewGrant without the assignment to g.issuedAt.
StoreIssuedAtSkipped(c) ==
    /\ pc[c] = "storeIssuedAt"
    /\ call' = [call EXCEPT ![c].storeNow = now]
    /\ pc' = [pc EXCEPT ![c] = "storeGrant"]
    /\ UNCHANGED <<built, gvars, now, stale, resp, newGrant, ret, posts,
                   lastDecoded>>
    /\ UNCHANGED <<given, nowFn, origin>>

\* renewGrant storing the timestamp and the grant together.
StoreIssuedAtWithGrant(c) ==
    /\ pc[c] = "storeIssuedAt"
    /\ issuedAt' = now
    /\ grant' = newGrant[c]
    /\ call' = [call EXCEPT ![c].storeNow = now]
    /\ pc' = [pc EXCEPT ![c] = "storeGrant"]
    /\ origin' = [origin EXCEPT !.issuedAtBy = <<c, call[c].n>>]
    /\ UNCHANGED <<built, tokenURL, credRequest, now, stale, resp,
                   newGrant, ret, posts, lastDecoded>>
    /\ UNCHANGED <<given, nowFn>>

\* renewGrant stamping the grant with the reading the staleness check took.
StoreIssuedAtFromCheck(c) ==
    /\ pc[c] = "storeIssuedAt"
    /\ issuedAt' = call[c].checkNow
    /\ call' = [call EXCEPT ![c].storeNow = now]
    /\ pc' = [pc EXCEPT ![c] = "storeGrant"]
    /\ origin' = [origin EXCEPT !.issuedAtBy = <<c, call[c].n>>]
    /\ UNCHANGED <<built, grant, tokenURL, credRequest, now, stale, resp,
                   newGrant, ret, posts, lastDecoded>>
    /\ UNCHANGED <<given, nowFn>>

\* g.issuedAt = g.nowFn()
StoreIssuedAt(c) ==
    /\ pc[c] = "storeIssuedAt"
    /\ issuedAt' = now
    /\ call' = [call EXCEPT ![c].storeNow = now]
    /\ pc' = [pc EXCEPT ![c] = "storeGrant"]
    /\ origin' = [origin EXCEPT !.issuedAtBy = <<c, call[c].n>>]
    /\ UNCHANGED <<built, grant, tokenURL, credRequest, now, stale, resp,
                   newGrant, ret, posts, lastDecoded>>
    /\ UNCHANGED <<given, nowFn>>

\* GetAccessToken looping back to the staleness check after a renewal.
StoreGrantThenRecheck(c) ==
    /\ pc[c] = "storeGrant"
    /\ grant' = newGrant[c]
    /\ origin' = [origin EXCEPT !.grantBy = <<c, call[c].n>>,
                                !.grantAt = call[c].storeNow]
    /\ pc' = [pc EXCEPT ![c] = "needsRenew"]
    /\ UNCHANGED <<built, issuedAt, tokenURL, credRequest, now, stale, resp,
                   newGrant, ret, posts, call, lastDecoded>>
    /\ UNCHANGED <<given, nowFn>>

\* renewGrant keeping a grant that another renewal stored meanwhile.
StoreGrantUnlessRenewed(c) ==
    /\ pc[c] = "storeGrant"
    /\ grant' = IF grant = call[c].preGrant THEN newGrant[c] ELSE grant
    /\ origin' = IF grant = call[c].preGrant
                 THEN [origin EXCEPT !.grantBy = <<c, call[c].n>>,
                                     !.grantAt = call[c].storeNow]
                 ELSE origin
    /\ pc' = [pc EXCEPT ![c] = "read"]
    /\ UNCHANGED <<built, issuedAt, tokenURL, credRequest, now, stale, resp,
                   newGrant, ret, posts, call, lastDecoded>>
    /\ UNCHANGED <<given, nowFn>>

\* g.grant = &grant; return nil
StoreGrant(c) ==
    /\ pc[c] = "storeGrant"
    /\ grant' = newGrant[c]
    /\ origin' = [origin EXCEPT !.grantBy = <<c, call[c].n>>,
                                !.grantAt = call[c].storeNow]
    /\ pc' = [pc EXCEPT ![c] = "read"]
    /\ UNCHANGED <<built, issuedAt, tokenURL, credRequest, now, stale, resp,
                   newGrant, ret, posts, call, lastDecoded>>
    /\ UNCHANGED <<given, nowFn>>

\* GetAccessToken returning the token it saw on entry.
ReadTokenOnEntry(c) ==
    /\ pc[c] = "read"
    /\ IF grant.present
       THEN /\ ret' = [ret EXCEPT ![c] =
                  Return(IF call[c].preGrant.present
                         THEN call[c].preGrant.AccessToken
                         ELSE grant.AccessToken, NoError)]
            /\ pc' = [pc EXCEPT ![c] = "done"]
       ELSE /\ pc' = [pc EXCEPT ![c] = "panic"]
            /\ UNCHANGED ret
    /\ UNCHANGED <<built, gvars, now, stale, resp, newGrant, posts, call,
                   lastDecoded>>
    /\ UNCHANGED <<given, nowFn, origin>>

\* GetAccessToken restarting the Grant's lifetime whenever it is read
\* (sliding expiry).
ReadTokenSliding(c) ==
    /\ pc[c] = "read"
    /\ IF grant.present
       THEN /\ ret' = [ret EXCEPT ![c] = Return(grant.AccessToken, NoError)]
            /\ pc' = [pc EXCEPT ![c] = "done"]
            /\ issuedAt' = now
       ELSE /\ pc' = [pc EXCEPT ![c] = "panic"]
            /\ UNCHANGED <<ret, issuedAt>>
    /\ UNCHANGED <<built, grant, tokenURL, credRequest, now, stale, resp,
                   newGrant, posts, call, lastDecoded>>
    /\ UNCHANGED <<given, nowFn, origin>>

\* return g.grant.AccessToken, nil  (a nil g.grant panics)
ReadToken(c) ==
    /\ pc[c] = "read"
    /\ IF grant.present
       THEN /\ ret' = [ret EXCEPT ![c] = Return(grant.AccessToken, NoError)]
            /\ pc' = [pc EXCEPT ![c] = "done"]
       ELSE /\ pc' = [pc EXCEPT ![c] = "panic"]
            /\ UNCHANGED ret
    /\ UNCHANGED <<built, gvars, now, stale, resp, newGrant, posts, call,
                   lastDecoded>>
    /\ UNCHANGED <<given, nowFn, origin>>

Next ==
    \/ \E url \in TokenURLs, cr \in CredRequests : NewGrant(url, cr)
    \/ Tick
    \/ \E c \in Callers : GetAccessToken(c)
    \/ \E c \in Callers : CheckNeedsRenew(c)
    \/ \E c \in Callers : Post(c)
    \/ \E c \in Callers : Decode(c)
    \/ \E c \in Callers : StoreIssuedAt(c)
    \/ \E c \in Callers : StoreGrant(c)
    \/ \E c \in Callers : ReadToken(c)

Spec == Init /\ [][Next]_vars

\* ---- two goroutines calling GetAccessToken on one *Grant ----------------
\* The methods take no lock, so the steps of two callers interleave.  The
\* interleaving is of whole loads and stores: g.grant is one pointer, and
\* with time.Now as the time source Time.After compares the monotonic word
\* of g.issuedAt alone, so a load of g.issuedAt that overlaps a store sees the
\* old or the new reading, which the two orders of the steps already give.
\* The inputs are narrowed to keep the interleavings within reach.
ConcCredRequest ==
    CredentialsRequest("joe-blow-id", "joe-blow-secret",
                       "https://api.blowcorp.co/", CLIENT_CREDS_GRANT_TYPE)

ConcResponses ==
    {HTTPResponse(StatusOK, FullBody(tok, 0)) : tok \in Tokens}
    \cup {HTTPResponse(500, Garbage)}

InitConc == InitFor({1, 2})

NextConc ==
    \/ \E url \in TokenURLs : NewGrant(url, ConcCredRequest)
    \/ Tick /\ now < MaxConcTime
    \/ \E c \in Callers : GetAccessToken(c) /\ call[c].n < MaxConcCalls
    \/ \E c \in Callers : CheckNeedsRenew(c)
    \/ \E c \in Callers : Post(c) /\ (pc'[c] = "decode" => resp'[c] \in ConcResponses)
    \/ \E c \in Callers : Decode(c)
    \/ \E c \in Callers : StoreIssuedAt(c)
    \/ \E c \in Callers : StoreGrant(c)
    \/ \E c \in Callers : ReadToken(c)

SpecConc == InitConc /\ [][NextConc]_vars

\* ---- one caller that keeps calling, and a transport that comes back -----
\* The caller calls again whenever a call has returned (its calls are not
\* counted), every started call runs to its return, and among the answers of
\* the transport a decodable 200 response keeps coming.
LiveResponses == ConcResponses \cup {HTTPResponse(StatusOK, Garbage)}

CallAgain(c) == Enter(c, 1)

PostLive(c) == Post(c) /\ (pc'[c] = "decode" => resp'[c] \in LiveResponses)

PostAnswered(c) ==
    /\ PostLive(c)
    /\ pc'[c] = "decode"
    /\ resp'[c].StatusCode = StatusOK
    /\ DecodeOK(resp'[c].Body)

CallerStep(c) ==
    \/ CallAgain(c)
    \/ CheckNeedsRenew(c)
    \/ PostLive(c)
    \/ Decode(c)
    \/ StoreIssuedAt(c)
    \/ StoreGrant(c)
    \/ ReadToken(c)

NextLive ==
    \/ \E url \in TokenURLs : NewGrant(url, ConcCredRequest)
    \/ Tick /\ now < MaxConcTime
    \/ \E c \in Callers : CallerStep(c)

SpecLive ==
    /\ Init
    /\ [][NextLive]_vars
    /\ WF_vars(\E url \in TokenURLs : NewGrant(url, ConcCredRequest))
    /\ WF_vars(\E c \in Callers : CallerStep(c))
    /\ SF_vars(\E c \in Callers : PostAnswered(c))

\* ---- vocabulary of the properties ---------------------------------------
\* The caller has taken the staleness decision of its current call.
Checked(c) == pc[c] \notin {"idle", "needsRenew"}

\* The current call has returned.
Returned(c) == pc[c] = "done" /\ ret[c].returned

\* The expiry instant of the Grant the call found, against the reading of
\* the clock its staleness check took.
FoundGrant(c) == call[c].preGrant.present
FoundExpiry(c) == call[c].preIssuedAt + call[c].preGrant.ExpiresIn

\* The exchange of the current call: a decodable 200 response, or not.
ExchangeOK(c) ==
    /\ ~resp[c].transportErr
    /\ resp[c].StatusCode = StatusOK
    /\ DecodeOK(resp[c].Body)

\* C1: a Grant whose expiry instant is at or after the clock reading (the
\* exact instant included) is a cache hit: no POST, and the call returns the
\* cached access_token with no error.
C1_CacheHit ==
    \A c \in Callers :
        (Checked(c) /\ FoundGrant(c) /\ FoundExpiry(c) >= call[c].checkNow)
        => /\ ~stale[c]
           /\ call[c].nposts = 0
           /\ pc[c] \in {"read", "done"}
           /\ pc[c] = "done" =>
                  ret[c] = Return(call[c].preGrant.AccessToken, NoError)

C1_Witness ==
    \E c \in Callers :
        /\ Returned(c) /\ FoundGrant(c)
        /\ call[c].preGrant.ExpiresIn > 0
        /\ FoundExpiry(c) = call[c].checkNow
        /\ ret[c].token = "open-sesame"

\* C2: a Grant past its expiry instant is renewed: when the exchange
\* succeeds the call has issued exactly one POST, the stored Grant is the
\* decoded one, issuedAt is the clock reading taken when storing, and the
\* new access_token is returned.
C2_ExpiredRenews ==
    \A c \in Callers :
        (pc[c] = "done" /\ FoundGrant(c) /\ FoundExpiry(c) < call[c].checkNow
           /\ ExchangeOK(c))
        => /\ call[c].nposts = 1
           /\ grant.present
           /\ grant.AccessToken = StringField(resp[c].Body, "access_token")
           /\ grant.Scope = StringField(resp[c].Body, "scope")
           /\ grant.TokenType = StringField(resp[c].Body, "token_type")
           /\ issuedAt = call[c].storeNow
           /\ call[c].storeNow >= call[c].checkNow
           /\ ret[c] = Return(StringField(resp[c].Body, "access_token"), NoError)

C2_Witness ==
    \E c \in Callers :
        /\ Returned(c) /\ FoundGrant(c) /\ FoundExpiry(c) < call[c].checkNow
        /\ ExchangeOK(c)
        /\ call[c].preGrant.AccessToken = "open-sesame"
        /\ ret[c].token = "abracadabra"
        /\ issuedAt > call[c].checkNow

\* C3: with no Grant stored the cache is stale whatever the clock reads:
\* the call issues exactly one POST and, when the exchange succeeds, stores
\* the decoded Grant with issuedAt the clock reading and returns its token.
C3_AbsentRenews ==
    \A c \in Callers :
        (Checked(c) /\ ~FoundGrant(c))
        => /\ stale[c]
           /\ pc[c] = "done" =>
                /\ call[c].nposts = 1
                /\ ExchangeOK(c) =>
                     /\ grant.present
                     /\ grant.AccessToken = StringField(resp[c].Body, "access_token")
                     /\ issuedAt = call[c].storeNow
                     /\ ret[c] = Return(grant.AccessToken, NoError)

C3_Witness ==
    \E c \in Callers :
        /\ Returned(c) /\ ~FoundGrant(c) /\ ExchangeOK(c)
        /\ call[c].n = 1
        /\ call[c].checkNow > 1
        /\ ret[c].token = "open-sesame"

\* C4: a call whose renewal fails returns an error and the empty token,
\* never the cached one.
C4_FailureReturnsNoToken ==
    \A c \in Callers :
        (pc[c] = "done" /\ stale[c] /\ ~ExchangeOK(c))
        => /\ ret[c].returned
           /\ ret[c].err # NoError
           /\ ret[c].token = ""

C4_Witness ==
    \E c \in Callers :
        /\ Returned(c) /\ stale[c] /\ ~ExchangeOK(c)
        /\ FoundGrant(c) /\ call[c].preGrant.AccessToken = "open-sesame"
        /\ resp[c].StatusCode = 500

\* C5: a failed call leaves the stored Grant (present or absent) and
\* issuedAt as they were when it was entered.
C5_FailureKeepsState ==
    \A c \in Callers :
        (Returned(c) /\ ret[c].err # NoError)
        => /\ grant = call[c].preGrant
           /\ issuedAt = call[c].preIssuedAt

C5_Witness ==
    \E c \in Callers :
        /\ Returned(c) /\ ret[c].err # NoError
        /\ grant.present
        /\ resp[c].StatusCode = StatusOK /\ ~DecodeOK(resp[c].Body)

\* C6: a call that returns without error returns the access_token of the
\* most recent decoded 200 response.
C6_ReturnsLatestToken ==
    \A c \in Callers :
        (Returned(c) /\ ret[c].err = NoError)
        => /\ ret[c].token = lastDecoded
           /\ ret[c].token = grant.AccessToken

C6_Witness ==
    \E c \in Callers :
        /\ Returned(c) /\ ret[c].err = NoError
        /\ call[c].nposts = 1
        /\ FoundGrant(c) /\ call[c].preGrant.AccessToken # ret[c].token

\* C7: one call issues at most one POST: none on a cache hit, one when
\* stale, also when the exchange failed or the Grant just stored is itself
\* already stale.
C7_AtMostOnePost ==
    \A c \in Callers :
        /\ call[c].nposts <= 1
        /\ pc[c] = "done" => call[c].nposts = (IF stale[c] THEN 1 ELSE 0)

C7_Witness ==
    \E c \in Callers :
        /\ Returned(c) /\ ret[c].err = NoError
        /\ call[c].nposts = 1
        /\ grant.ExpiresIn < 0
        /\ needsRenew(grant, issuedAt, now)

\* A string that json.Marshal writes as it is.
ValidUTF8(s) == s \notin {"id-\\xff", "type-\\xff"}

\* What the server reads for a field: the value itself, or for a value that
\* is not valid UTF-8 another, valid, string.
SentAs(v, sent) == IF ValidUTF8(v) THEN sent = v ELSE sent # v /\ ValidUTF8(sent)

\* C8 (as stated): every POST goes to the token URL given at construction
\* as application/json and carries the given client_id, client_secret and
\* audience and the grant_type "client_credentials".
C8_PostIsClientCredentials ==
    \A i \in DOMAIN posts :
        /\ posts[i].url = given.tokenURL
        /\ posts[i].contentType = "application/json"
        /\ posts[i].body.client_id = given.credRequest.ClientID
        /\ posts[i].body.client_secret = given.credRequest.ClientSecret
        /\ posts[i].body.audience = given.credRequest.Audience
        /\ posts[i].body.grant_type = CLIENT_CREDS_GRANT_TYPE

\* C8 (amended): every POST goes to the token URL given at construction as
\* application/json and its body is the JSON encoding of the
\* CredentialsRequest given at construction: all four members, grant_type
\* among them, carry the caller's values (bytes that are not valid UTF-8
\* replaced), so grant_type is "client_credentials" exactly when the caller
\* set GrantType to it.
C8_PostCarriesGivenRequest ==
    \A i \in DOMAIN posts :
        /\ posts[i].url = given.tokenURL
        /\ posts[i].contentType = "application/json"
        /\ SentAs(given.credRequest.ClientID, posts[i].body.client_id)
        /\ SentAs(given.credRequest.ClientSecret, posts[i].body.client_secret)
        /\ SentAs(given.credRequest.Audience, posts[i].body.audience)
        /\ SentAs(given.credRequest.GrantType, posts[i].body.grant_type)
        /\ (posts[i].body.grant_type = CLIENT_CREDS_GRANT_TYPE)
               <=> (given.credRequest.GrantType = CLIENT_CREDS_GRANT_TYPE)

C8_Witness ==
    /\ Len(posts) >= 2
    /\ given.credRequest.GrantType = ""
    /\ posts[2].body.grant_type = ""
    /\ posts[2].body.client_id = "joe-blow-id"

\* C9 (as stated): after a renewal whose 200 response gives expires_in = N,
\* the stored Grant's ExpiresIn is N seconds, and the Grant is fresh for
\* exactly the clock readings up to and including issuedAt + N seconds.
C9_ExpiresInIsNSeconds ==
    \A c \in Callers :
        (Returned(c) /\ stale[c] /\ ExchangeOK(c))
        => LET N == IntField(resp[c].Body, "expires_in")
           IN  /\ grant.ExpiresIn = N * Second
               /\ \A t \in 0..MaxTime :
                      ~needsRenew(grant, issuedAt, t) <=> (t <= issuedAt + N * Second)

Renewing(c) == pc[c] \in {"post", "decode", "storeIssuedAt", "storeGrant"}

\* The caller's current call has returned from a successful renewal.
Renewed(c) == Returned(c) /\ stale[c] /\ ret[c].err = NoError

\* C11: there is no single-flight deduplication.  The staleness decision of
\* a caller is taken from the stored Grant, issuedAt and the clock alone,
\* whatever the other callers are doing, and each caller that decided stale
\* issues a POST of its own; so two callers that both check before either
\* stores issue two POSTs for the one expiry.
C11_NoSingleFlight ==
    [][ \A c \in Callers :
          /\ (pc[c] = "needsRenew" /\ pc'[c] # "needsRenew")
             => (pc'[c] = "post"
                   <=> (~grant.present \/ now > issuedAt + grant.ExpiresIn))
          /\ (pc[c] = "post" /\ pc'[c] # "post")
             => Len(posts') = Len(posts) + 1 ]_vars

\* Both callers found the one stored Grant expired and each has its POST
\* answered, neither having stored anything yet.
C11_Witness ==
    /\ pc[1] = "decode" /\ pc[2] = "decode"
    /\ grant.present
    /\ call[1].preGrant = grant /\ call[2].preGrant = grant
    /\ call[1].nposts = 1 /\ call[2].nposts = 1
    /\ Len(posts) = 3

\* C12: the last store wins.  Every store of g.grant overwrites what is
\* there, so the stored Grant is always the one of the renewal that stored
\* last, in particular once all concurrent renewals have returned.
C12_LastStoreWins ==
    /\ [](\A c \in Callers :
            (origin.grantBy = <<c, call[c].n>> /\ Checked(c)) => grant = newGrant[c])
    /\ [][ \A c \in Callers :
             (pc[c] = "storeGrant" /\ pc'[c] # "storeGrant")
             => (grant' = newGrant[c] /\ origin'.grantBy = <<c, call[c].n>>) ]_vars

\* Two renewals overlapped, both have returned, they decoded different
\* tokens, and caller 1 stored its Grant last although caller 2 wrote
\* issuedAt last.
C12_Witness ==
    /\ Renewed(1) /\ Renewed(2)
    /\ newGrant[1].AccessToken # newGrant[2].AccessToken
    /\ origin.grantBy = <<1, call[1].n>>
    /\ origin.issuedAtBy = <<2, call[2].n>>
    /\ grant = newGrant[1]

\* C13: issuedAt and the Grant are not updated together.  renewGrant stores
\* issuedAt in one step, leaving the Grant as it was, and the Grant in a
\* later one; between the two the stored issuedAt belongs to one renewal and
\* the stored Grant to another, and a concurrent caller can take a cache hit
\* on that pair.
C13_StoresAreSeparate ==
    [][ \A c \in Callers :
          /\ (pc[c] = "storeIssuedAt" /\ pc'[c] # "storeIssuedAt")
             => /\ pc'[c] = "storeGrant"
                /\ issuedAt' = now
                /\ grant' = grant
          /\ (pc[c] = "storeGrant" /\ pc'[c] # "storeGrant")
             => issuedAt' = issuedAt ]_vars

\* Caller 2 has written issuedAt and not yet its Grant; caller 1 took a
\* cache hit meanwhile and returned the token of an older renewal at a clock
\* reading past that renewal's issuedAt + expires_in.
C13_Witness ==
    /\ pc[2] = "storeGrant"
    /\ origin.issuedAtBy = <<2, call[2].n>>
    /\ origin.grantBy # origin.issuedAtBy
    /\ Returned(1) /\ ~stale[1] /\ ret[1].err = NoError
    /\ call[1].checkNow >= call[2].storeNow
    /\ ret[1].token = grant.AccessToken
    /\ call[1].checkNow > origin.grantAt + grant.ExpiresIn

\* ---- single caller, continued -------------------------------------------
\* C14: the status check comes before decoding.  A response that is not 200
\* fails the renewal with the status error even when its body is a
\* well-formed Grant, the body is not decoded and nothing is stored; the
\* Grant changes only for a response with status 200 and a decodable body.
C14_StatusBeforeDecode ==
    /\ [](\A c \in Callers :
            (pc[c] = "done" /\ stale[c] /\ ~resp[c].transportErr
               /\ resp[c].StatusCode # StatusOK)
            => /\ ret[c] = Return("", <<"renew grant", "response status">>)
               /\ newGrant[c] = NoGrant
               /\ grant = call[c].preGrant
               /\ issuedAt = call[c].preIssuedAt)
    /\ [][ grant' # grant =>
             \E c \in Callers : /\ pc[c] = "storeGrant"
                                /\ ~resp[c].transportErr
                                /\ resp[c].StatusCode = StatusOK
                                /\ DecodeOK(resp[c].Body) ]_vars

C14_Witness ==
    \E c \in Callers :
        /\ Returned(c) /\ stale[c]
        /\ resp[c].StatusCode = 500
        /\ resp[c].Body = FullBody("abracadabra", 1)
        /\ grant.present /\ grant.AccessToken = "open-sesame"

\* C15: the issuance timestamp of a successful renewal is the reading of
\* the time source taken when storing, after the response was received and
\* decoded; when the clock advanced since the staleness check, issuedAt is
\* the later reading.
C15_IssuedAtIsStoreReading ==
    /\ [][ \A c \in Callers :
             (pc[c] = "storeIssuedAt" /\ pc'[c] # "storeIssuedAt")
             => (issuedAt' = now /\ now >= call[c].checkNow
                   /\ newGrant[c].present) ]_vars
    /\ [](\A c \in Callers :
            Renewed(c) => (issuedAt = call[c].storeNow
                             /\ issuedAt >= call[c].checkNow))

C15_Witness ==
    \E c \in Callers :
        /\ Renewed(c)
        /\ issuedAt = call[c].checkNow + 2
        /\ now > issuedAt

\* C16: a successful renewal wholly replaces the stored Grant.  Every field
\* of the stored Grant is the value of the member in the new response
\* (expires_in times Second, in the Duration word); a member the response
\* lacks is stored as the empty string or zero, not carried over.
C16_WhollyReplaced ==
    \A c \in Callers :
        Renewed(c) =>
            LET b == resp[c].Body
                StrIs(k, v) == IF HasKey(b, k) THEN v = b.obj[k].s ELSE v = ""
            IN  /\ StrIs("access_token", grant.AccessToken)
                /\ StrIs("scope", grant.Scope)
                /\ StrIs("token_type", grant.TokenType)
                /\ IF HasKey(b, "expires_in")
                   THEN (grant.ExpiresIn - b.obj["expires_in"].n * Second)
                            % DurationModulus = 0
                   ELSE grant.ExpiresIn = 0

C16_Witness ==
    \E c \in Callers :
        /\ Renewed(c)
        /\ call[c].preGrant.Scope = "u-cant-touch-dis"
        /\ call[c].preGrant.TokenType = "Bearer"
        /\ call[c].preGrant.ExpiresIn # 0
        /\ ~HasKey(resp[c].Body, "scope")
        /\ ~HasKey(resp[c].Body, "expires_in")
        /\ grant.Scope = "" /\ grant.TokenType = "" /\ grant.ExpiresIn = 0

\* C17: failure is not sticky and there is no back-off.  A call that follows
\* a failed call finds the cache stale again, issues exactly one POST and,
\* when that exchange succeeds, returns the new token; and with a caller
\* that keeps calling and a transport that keeps coming back, a failed call
\* is eventually followed by a call that returns a token.
C17_FailureNotSticky ==
    /\ [](\A c \in Callers :
            (Checked(c) /\ call[c].prevFailed)
            => /\ stale[c]
               /\ pc[c] = "done" =>
                    /\ call[c].nposts = 1
                    /\ ExchangeOK(c) =>
                         ret[c] = Return(StringField(resp[c].Body, "access_token"),
                                         NoError))
    /\ (Returned(1) /\ ret[1].err # NoError)
           ~> (Returned(1) /\ ret[1].err = NoError)

C17_Witness ==
    \E c \in Callers :
        /\ Renewed(c) /\ call[c].prevFailed
        /\ call[c].preGrant.present
        /\ ret[c].token = "abracadabra"

\* C18: no operation changes the token URL, the CredentialsRequest or the
\* time source of a constructed Grant, and a cache hit changes nothing: the
\* Grant and issuedAt are as the call found them, so however often it is hit
\* a Grant is never served past issuedAt + expires_in of the renewal that
\* stored it.
C18_Frame ==
    /\ [][ built => /\ tokenURL' = tokenURL
                    /\ credRequest' = credRequest
                    /\ nowFn' = nowFn ]_vars
    /\ [][ \A c \in Callers :
             (Checked(c) /\ ~stale[c] /\ pc[c] # "done")
             => UNCHANGED <<grant, issuedAt, posts>> ]_vars
    /\ [](\A c \in Callers :
            (Returned(c) /\ ~stale[c])
            => /\ grant = call[c].preGrant
               /\ issuedAt = call[c].preIssuedAt
               /\ issuedAt = origin.grantAt
               /\ call[c].checkNow <= origin.grantAt + grant.ExpiresIn)

\* The third call is the second hit in a row on the Grant of the first, at
\* the very instant it expires.
C18_Witness ==
    \E c \in Callers :
        /\ Returned(c) /\ ~stale[c]
        /\ call[c].n = 3 /\ Len(posts) = 1
        /\ grant.ExpiresIn > 0
        /\ call[c].checkNow = issuedAt + grant.ExpiresIn

\* C19: the Grant never becomes absent again once stored, whatever fails,
\* and in every interleaving a caller reads the stored access_token only
\* with a Grant present: the read never finds nil.
C19_GrantStaysPresent ==
    /\ [](\A c \in Callers : pc[c] # "panic" /\ (pc[c] = "read" => grant.present))
    /\ [][ grant.present => grant'.present ]_vars

\* Caller 1 entered with no Grant stored and is about to read the one that
\* caller 2 stored meanwhile; caller 2 has since failed a renewal.
C19_Witness ==
    /\ pc[1] = "read" /\ ~stale[1] /\ ~FoundGrant(1)
    /\ Returned(2) /\ ret[2].err # NoError
    /\ grant.present

\* C20: back-to-back calls.  After a call that succeeded, a second call at
\* the same clock reading with a stored expires_in of zero or more is a cache
\* hit: no POST, the same access_token, the state unchanged; with a negative
\* expires_in the second call renews again.
C20_BackToBack ==
    \A c \in Callers :
        (Checked(c) /\ call[c].prevAt # NoTime /\ call[c].checkNow = call[c].prevAt)
        => IF call[c].preGrant.ExpiresIn >= 0
           THEN /\ ~stale[c]
                /\ call[c].nposts = 0
                /\ grant = call[c].preGrant
                /\ issuedAt = call[c].preIssuedAt
                /\ pc[c] = "done" => ret[c] = Return(call[c].prevToken, NoError)
           ELSE stale[c]

\* The first call renewed and stored expires_in = 0; the second, at the same
\* reading, has returned the same token and the one POST is still the only
\* one.
C20_Witness ==
    \E c \in Callers :
        /\ Returned(c) /\ call[c].n = 2
        /\ call[c].prevAt = call[c].checkNow
        /\ grant.ExpiresIn = 0
        /\ Len(posts) = 1
        /\ ret[c].token = "abracadabra"
====
